---- MODULE Spec2Model ----
(***************************************************************************)
(* download-mingw-rpm.py: resolution of requested package tokens against   *)
(* the package list of an RPM repository, download of the selected         *)
(* packages into the package cache, and extraction.                        *)
(*                                                                         *)
(* Strings are sequences of symbols.  A symbol is a run of characters the  *)
(* program never splits: the prefixes "mingw32-" and "mingw64-", the       *)
(* suffix ".rpm", the glob character "*", and plain words.                 *)
(***************************************************************************)
EXTENDS Integers, Sequences, FiniteSets, Bags, TLC

VARIABLES
  args,             \* main: the package tokens given on the command line
  withdeps,         \* main: options.withdeps
  repository,       \* the package records the remote repository publishes
  _packages,        \* module-level package list
  pc,               \* position of main
  exitCode,         \* exit status of the process (-1 while it runs)
  cache,            \* filenames present in cache/package
  cpioCache,        \* filenames whose .cpio is present in cache/extracted
  packageNames,     \* packagesDownload: the work list
  allPackageNames,  \* packagesDownload: the names seen so far
  packageFilenames, \* packagesDownload: the filenames collected
  packName,         \* packagesDownload: the name popped last
  popLog,           \* the names popped from the work list in this call
  package,          \* packagesDownload: index in _packages of the package
                    \* found for packName, 0 for None
  packages,         \* main: the list packagesDownload returned
  log,              \* bag of the messages written with error() / warning()
                    \* and of the messages sys.exit writes
  fetchLog,         \* the filenames handed to urlretrieve, in order
  extractPos,       \* packagesExtract: number of filenames processed
  extractLog,       \* the calls of _extractFile, in order
  call,             \* number of the current call of packagesDownload
  firstResult,      \* filenames returned by the first call, or by the
                    \* previous run of the program
  refNames,         \* reference run: work list
  refAllNames,      \* reference run: names seen
  refFilenames,     \* reference run: filenames collected
  refInStep         \* reference run: it could follow every step so far

vars == << args, withdeps, repository, _packages, pc, exitCode,
           cache, cpioCache, packageNames, allPackageNames, packageFilenames,
           packName, popLog, package, packages, log, fetchLog, extractPos,
           extractLog, call, firstResult, refNames, refAllNames, refFilenames, refInStep >>

----------------------------------------------------------------------------
(* Bounds of the model. *)

\* Largest number of packages in the repository.
MaxIndex == 3

\* Largest number of tokens on the command line.
MaxRequest == 2

\* Largest number of failures of the first extraction stage in one run.
MaxExtractFailures == 1

\* Largest number of packages and of tokens in the runs followed to their
\* end.
MaxLiveIndex == 2
MaxLiveRequest == 1

----------------------------------------------------------------------------
(* Strings. *)

M32 == "mingw32-"
M64 == "mingw64-"
RPM == ".rpm"
STAR == "*"

Last(s) == s[Len(s)]
Front(s) == SubSeq(s, 1, Len(s) - 1)

\* str.endswith('.rpm')
EndsWithRpm(s) == Len(s) > 0 /\ Last(s) = RPM

\* str.replace(sym, ''): every occurrence is removed, wherever it stands.
Replace(s, sym) == SelectSeq(s, LAMBDA c : c # sym)

\* p['name'].replace('mingw32-', '').replace('mingw64-', '')
Normalize(name) == Replace(Replace(name, M32), M64)

\* fnmatch.fnmatchcase(name, pat), for patterns of literal symbols and "*".
RECURSIVE fnmatchcase(_, _)
fnmatchcase(name, pat) ==
  IF pat = <<>> THEN name = <<>>
  ELSE IF Head(pat) = STAR
       THEN fnmatchcase(name, Tail(pat))
            \/ (name # <<>> /\ fnmatchcase(Tail(name), pat))
       ELSE name # <<>> /\ Head(name) = Head(pat)
            /\ fnmatchcase(Tail(name), Tail(pat))

\* Lists of the length of the set in which an element may stand twice.
OrdersWithRepeats(S) == [1..Cardinality(S) -> S]

\* The orders in which a set can be turned into a list (list(set),
\* list.extend(set)): the iteration order of a set of strings is not fixed.
Orders(S) ==
  { s \in [1..Cardinality(S) -> S] : \A i, j \in 1..Cardinality(S) :
                                        i # j => s[i] # s[j] }

SeqToSet(s) == { s[i] : i \in 1..Len(s) }

----------------------------------------------------------------------------
(* The packages a repository may publish. *)

N_lib32 == << M32, "lib" >>
N_lib64 == << M64, "lib" >>
N_app   == << M32, "app" >>
F_lib1  == << M32, "lib", "-1", RPM >>
F_lib2  == << M32, "lib", "-2", RPM >>
F_lib2b == << M32, "lib", "-2b", RPM >>
F_lib64 == << M64, "lib", "-1", RPM >>
F_app   == << M32, "app", "-1", RPM >>
F_odd   == << "odd", RPM >>

Catalogue ==
  << \* an old build of lib that provides "a"; nobody provides the "q" it needs
     [name |-> N_lib32, buildtime |-> 1, filename |-> F_lib1,
      provides |-> {"a"}, requires |-> {"q"}],
     \* a newer build of lib that no longer provides "a"
     [name |-> N_lib32, buildtime |-> 2, filename |-> F_lib2,
      provides |-> {}, requires |-> {}],
     \* a rebuild with the same build time as the previous one
     [name |-> N_lib32, buildtime |-> 2, filename |-> F_lib2b,
      provides |-> {"a", "b"}, requires |-> {}],
     \* the 64 bit twin; it needs "c", which app provides
     [name |-> N_lib64, buildtime |-> 1, filename |-> F_lib64,
      provides |-> {"a", "b"}, requires |-> {"c"}],
     \* an application that needs "a" and "b"
     [name |-> N_app, buildtime |-> 1, filename |-> F_app,
      provides |-> {"c"}, requires |-> {"a", "b"}],
     \* a package named like the file of another one; it needs what it provides
     [name |-> F_lib1, buildtime |-> 3, filename |-> F_odd,
      provides |-> {"z"}, requires |-> {"z"}] >>

\* The tokens a user may give.
Tokens ==
  { << "lib" >>,          \* the logical name shared by lib32 and lib64
    << "app" >>,
    << "lib", STAR >>,    \* a pattern
    F_lib1,               \* a filename
    N_lib32,              \* a full package name
    << "nope" >> }        \* matches nothing

\* The package lists: the catalogue's packages, in the catalogue's order.
RECURSIVE Pick(_, _)
Pick(S, i) ==
  IF i > Len(Catalogue) THEN <<>>
  ELSE (IF i \in S THEN << Catalogue[i] >> ELSE <<>>) \o Pick(S, i + 1)

Repositories ==
  { Pick(S, 1) : S \in { T \in SUBSET (1..Len(Catalogue)) :
                            Cardinality(T) <= MaxIndex } }

Requests == { T \in SUBSET Tokens : Cardinality(T) <= MaxRequest }

\* Packages whose names have a mingw prefix at the front or in the middle.
N_foo32 == << M32, "foo", "bar" >>
N_foo64 == << M64, "foo", "bar" >>
N_cross == << "cross", M32, "foo" >>

NamesCatalogue ==
  << [name |-> N_foo32, buildtime |-> 1,
      filename |-> N_foo32 \o << "-1", RPM >>,
      provides |-> {}, requires |-> {}],
     [name |-> N_foo64, buildtime |-> 1,
      filename |-> N_foo64 \o << "-1", RPM >>,
      provides |-> {}, requires |-> {}],
     [name |-> N_cross, buildtime |-> 1,
      filename |-> N_cross \o << "-1", RPM >>,
      provides |-> {}, requires |-> {}] >>

NameTokens ==
  { << "foo", STAR >>,      \* a pattern for the name without its prefix
    << "cross", "foo" >>,   \* N_cross without the prefix in its middle
    << "FOO", STAR >>,      \* the pattern in another case
    << STAR, RPM >> }       \* a pattern that ends in .rpm

\* The package lists made of NamesCatalogue, in its order.
NameRepositories ==
  UNION { { [ i \in 1..n |-> NamesCatalogue[f[i]] ] :
            f \in { g \in [1..n -> 1..Len(NamesCatalogue)] :
                      \A i, j \in 1..n : i < j => g[i] < g[j] } } :
          n \in 0..MaxIndex }

NameRequests == { T \in SUBSET NameTokens : Cardinality(T) <= MaxRequest }

----------------------------------------------------------------------------
(* _findPackage *)

\* [p for p in _packages if packageName in [p['name'], p['filename']]]
\* as the list of their indexes.
Matching(packageName) ==
  SelectSeq([i \in 1..Len(_packages) |-> i],
            LAMBDA i : packageName \in { _packages[i].name,
                                         _packages[i].filename })

\* A sort that is not stable: an element goes before the elements of equal
\* key.
RECURSIVE InsertDescUnstable(_, _)
InsertDescUnstable(sorted, i) ==
  IF sorted = <<>> THEN << i >>
  ELSE IF _packages[Head(sorted)].buildtime > _packages[i].buildtime
       THEN << Head(sorted) >> \o InsertDescUnstable(Tail(sorted), i)
       ELSE << i >> \o sorted

\* list.sort is stable and reverse=True keeps the order of equal keys:
\* an element goes after every element whose key is not smaller.
RECURSIVE InsertDesc(_, _)
InsertDesc(sorted, i) ==
  IF sorted = <<>> THEN << i >>
  ELSE IF _packages[Head(sorted)].buildtime >= _packages[i].buildtime
       THEN << Head(sorted) >> \o InsertDesc(Tail(sorted), i)
       ELSE << i >> \o sorted

RECURSIVE SortedDesc(_)
SortedDesc(s) ==
  IF s = <<>> THEN <<>> ELSE InsertDesc(SortedDesc(Front(s)), Last(s))

\* sorted(..., key=sort_func, reverse=True)
Found(packageName) == SortedDesc(Matching(packageName))

\* The package returned, as its index in _packages; 0 is None.
_findPackage(packageName) ==
  IF Len(Found(packageName)) = 0 THEN 0 ELSE Found(packageName)[1]

Message(kind, name, req) == [kind |-> kind, name |-> name, req |-> req]

\* error('multiple packages found for %s:', packageName)
FindLog(packageName) ==
  IF Len(Found(packageName)) > 1
  THEN SetToBag({ Message("multiple", packageName, "") })
  ELSE EmptyBag

----------------------------------------------------------------------------
(* _checkPackageRequirements *)

\* {p['name'] for p in _packages if requirement in p['provides']}
Providers(requirement) ==
  { _packages[i].name : i \in { j \in 1..Len(_packages) :
                                  requirement \in _packages[j].provides } }

\* The test against the names seen left out: a provider is taken for every
\* requirement that has one.
UnmetWhateverSeen(p, names) ==
  { r \in _packages[p].requires : Providers(r) # {} }

\* The requirements a provider is taken for: none of their providers is
\* in packageNames, the set the caller passed.
Unmet(p, names) ==
  { r \in _packages[p].requires :
      Providers(r) \cap names = {} /\ Providers(r) # {} }

\* The requirements nobody provides.
Unprovided(p) == { r \in _packages[p].requires : Providers(r) = {} }

\* The sets allProviders may be on return: providers.pop() takes an
\* arbitrary element of each unmet requirement's providers.
_checkPackageRequirements(p, names) ==
  { { f[r] : r \in Unmet(p, names) } :
      f \in { g \in [Unmet(p, names) -> { _packages[i].name :
                                            i \in 1..Len(_packages) }] :
                \A r \in Unmet(p, names) : g[r] \in Providers(r) } }

\* The warnings and errors of one call.
CheckLog(p, names) ==
  SetToBag({ Message("ambiguous", _packages[p].name, r) :
               r \in Unmet(p, names) })
  (+) SetToBag({ Message("unsatisfied", _packages[p].name, r) :
                   r \in Unprovided(p) })

----------------------------------------------------------------------------
(* packagesDownload, lines 90-95: the tokens become the work list. *)

Literal(tokens) == { pn \in tokens : EndsWithRpm(pn) }

matchedpackages(packageName) ==
  { _packages[i].name : i \in { j \in 1..Len(_packages) :
        fnmatchcase(Normalize(_packages[j].name), packageName) } }

\* matchedpackages or {packageName}
Expansion(packageName) ==
  IF matchedpackages(packageName) # {} THEN matchedpackages(packageName)
  ELSE { packageName }

packageNames_new(tokens) ==
  Literal(tokens) \cup UNION { Expansion(t) : t \in tokens \ Literal(tokens) }

\* The test of withDependencies left out.
AddedAlways(withDependencies, dependencies) == dependencies

\* if withDependencies and dependencies: the names added to the work list
Added(withDependencies, dependencies) ==
  IF withDependencies /\ dependencies # {} THEN dependencies ELSE {}

----------------------------------------------------------------------------
(* The reference run: packagesDownload on the same request without the     *)
(* tokens that name nothing.  It takes the steps of the run itself         *)
(* whenever its own state allows them.                                     *)

\* The tokens that match no package, as a pattern or as a literal name.
Nameless(tokens) ==
  { t \in tokens : (EndsWithRpm(t) \/ matchedpackages(t) = {})
                   /\ _findPackage(t) = 0 }

----------------------------------------------------------------------------
(* main *)

\* The tokens of the current call of packagesDownload.
Requested == IF call = 1 THEN args ELSE firstResult

\* The state in which main starts, but for its inputs.
Started ==
  /\ _packages = <<>>
  /\ pc = "GetOptions"
  /\ exitCode = -1
  /\ cache \in { {}, { repository[i].filename : i \in 1..Len(repository) } }
  /\ cpioCache = {}
  /\ packageNames = <<>>
  /\ allPackageNames = {}
  /\ packageFilenames = <<>>
  /\ packName = <<>>
  /\ popLog = <<>>
  /\ package = 0
  /\ packages = <<>>
  /\ log = EmptyBag
  /\ fetchLog = <<>>
  /\ extractPos = 0
  /\ extractLog = <<>>
  /\ call = 1
  /\ firstResult = {}
  /\ refNames = <<>>
  /\ refAllNames = {}
  /\ refFilenames = <<>>
  /\ refInStep = TRUE

Init ==
  /\ args \in Requests
  /\ withdeps \in BOOLEAN
  /\ repository \in Repositories
  /\ Started

resolverVars == << packageNames, allPackageNames, packageFilenames, packName,
                   popLog, package, fetchLog, call, firstResult >>
refVars == << refNames, refAllNames, refFilenames, refInStep >>
extractVars == << cpioCache, extractPos, extractLog >>
inputVars == << args, withdeps, repository >>

\* Lines 199-205: without a package argument the help is printed and the
\* process exits with 1.
GetOptions ==
  /\ pc = "GetOptions"
  /\ IF args = {}
     THEN pc' = "exit" /\ exitCode' = 1
     ELSE pc' = "OpenRepository" /\ UNCHANGED exitCode
  /\ UNCHANGED << inputVars, _packages, cache, packages, log, resolverVars,
                  refVars, extractVars >>

\* Lines 216-220 and OpenRepository: the package list is read, or any
\* exception of urlopen / the XML parser ends the process with a message.
OpenRepository ==
  /\ pc = "OpenRepository"
  /\ \/ /\ _packages' = repository
        /\ pc' = "basename"
        /\ UNCHANGED << exitCode, log >>
     \/ /\ pc' = "exit"
        /\ exitCode' = 1
        /\ log' = log (+) SetToBag({ Message("Error opening repository",
                                             <<>>, "") })
        /\ UNCHANGED _packages
  /\ UNCHANGED << inputVars, cache, packages, resolverVars, refVars,
                  extractVars >>

\* sys.exit with a message taken to end the process with status 0.
BasenameExitZero ==
  /\ pc = "basename"
  /\ \E needBasename \in BOOLEAN :
       IF needBasename
       THEN \E first \in args :
              LET p1 == _findPackage(first)
                  p2 == _findPackage(<< M32 >> \o first)
                  p3 == _findPackage(<< M64 >> \o first)
              IN  /\ log' = log (+) FindLog(first)
                           (+) (IF p1 = 0 THEN FindLog(<< M32 >> \o first)
                                ELSE EmptyBag)
                           (+) (IF p1 = 0 /\ p2 = 0
                                THEN FindLog(<< M64 >> \o first)
                                ELSE EmptyBag)
                           (+) (IF p1 = 0 /\ p2 = 0 /\ p3 = 0
                                THEN SetToBag({ Message("Package not found:",
                                                        first, "") })
                                ELSE EmptyBag)
                  /\ IF p1 = 0 /\ p2 = 0 /\ p3 = 0
                     THEN pc' = "exit" /\ exitCode' = 0
                     ELSE pc' = "packagesDownload" /\ UNCHANGED exitCode
       ELSE pc' = "packagesDownload" /\ UNCHANGED << exitCode, log >>
  /\ UNCHANGED << inputVars, _packages, cache, packages, resolverVars,
                  refVars, extractVars >>

\* Lines 225-229: with --make-zip or --add-metadata the first argument must
\* name a package, as it stands or with a mingw prefix; sys.exit with a
\* message ends the process with status 1.
Basename ==
  /\ pc = "basename"
  /\ \E needBasename \in BOOLEAN :
       IF needBasename
       THEN \E first \in args :
              LET p1 == _findPackage(first)
                  p2 == _findPackage(<< M32 >> \o first)
                  p3 == _findPackage(<< M64 >> \o first)
              IN  /\ log' = log (+) FindLog(first)
                           (+) (IF p1 = 0 THEN FindLog(<< M32 >> \o first)
                                ELSE EmptyBag)
                           (+) (IF p1 = 0 /\ p2 = 0
                                THEN FindLog(<< M64 >> \o first)
                                ELSE EmptyBag)
                           (+) (IF p1 = 0 /\ p2 = 0 /\ p3 = 0
                                THEN SetToBag({ Message("Package not found:",
                                                        first, "") })
                                ELSE EmptyBag)
                  /\ IF p1 = 0 /\ p2 = 0 /\ p3 = 0
                     THEN pc' = "exit" /\ exitCode' = 1
                     ELSE pc' = "packagesDownload" /\ UNCHANGED exitCode
       ELSE pc' = "packagesDownload" /\ UNCHANGED << exitCode, log >>
  /\ UNCHANGED << inputVars, _packages, cache, packages, resolverVars,
                  refVars, extractVars >>

\* Lines 90-97: the tokens are expanded into the work list.
Expand ==
  /\ pc = "packagesDownload"
  /\ \E order \in Orders(packageNames_new(Requested)) :
       /\ packageNames' = order
       /\ refNames' = SelectSeq(order, LAMBDA n : n \notin Nameless(Requested))
  /\ allPackageNames' = packageNames_new(Requested)
  /\ refAllNames' = packageNames_new(Requested \ Nameless(Requested))
  /\ refInStep' = (SeqToSet(refNames') = refAllNames')
  /\ packageFilenames' = <<>>
  /\ refFilenames' = <<>>
  /\ popLog' = <<>>
  /\ pc' = "loop"
  /\ UNCHANGED << inputVars, _packages, exitCode, cache, packages, log,
                  packName, package, fetchLog, call, firstResult,
                  extractVars >>

\* The step of the reference run that goes with popping name, finding p and
\* adding the names in order.
RefStep(name, p, dependencies, order, appended) ==
  IF p = 0 /\ name \notin SeqToSet(refNames)
  THEN UNCHANGED refVars
  ELSE IF /\ refInStep
          /\ p # 0
          /\ refNames # <<>>
          /\ Last(refNames) = name
          /\ dependencies \in _checkPackageRequirements(p, refAllNames)
       THEN /\ refNames' = Front(refNames) \o order
            /\ refAllNames' = refAllNames \cup Added(withdeps, dependencies)
            /\ refFilenames' = IF appended
                               THEN Append(refFilenames, _packages[p].filename)
                               ELSE refFilenames
            /\ UNCHANGED refInStep
       ELSE /\ refInStep' = FALSE
            /\ UNCHANGED << refNames, refAllNames, refFilenames >>

\* A name without a package ends the run.
NotFoundFatal ==
  /\ pc = "loop"
  /\ packageNames # <<>>
  /\ _findPackage(Last(packageNames)) = 0
  /\ packName' = Last(packageNames)
  /\ popLog' = Append(popLog, Last(packageNames))
  /\ package' = 0
  /\ packageNames' = Front(packageNames)
  /\ log' = log (+) SetToBag({ Message("not found", Last(packageNames), "") })
  /\ pc' = "exit"
  /\ exitCode' = 1
  /\ UNCHANGED << inputVars, _packages, cache, packages, allPackageNames,
                  packageFilenames, fetchLog, call, firstResult, refVars,
                  extractVars >>

\* Lines 98-103: a name is popped and no package has it.
NotFound ==
  /\ pc = "loop"
  /\ packageNames # <<>>
  /\ _findPackage(Last(packageNames)) = 0
  /\ packName' = Last(packageNames)
  /\ popLog' = Append(popLog, Last(packageNames))
  /\ package' = 0
  /\ packageNames' = Front(packageNames)
  /\ log' = log (+) SetToBag({ Message("not found", Last(packageNames), "") })
  /\ RefStep(Last(packageNames), 0, {}, <<>>, FALSE)
  /\ UNCHANGED << inputVars, _packages, pc, exitCode, cache, packages,
                  allPackageNames, packageFilenames, fetchLog, call,
                  firstResult, extractVars >>

\* A package whose file is in the cache left out of the list returned.
DownloadUnlessCached ==
  /\ pc = "loop"
  /\ packageNames # <<>>
  /\ _findPackage(Last(packageNames)) # 0
  /\ LET name == Last(packageNames)
         p == _findPackage(name)
     IN  \E dependencies \in _checkPackageRequirements(p, allPackageNames) :
         \E order \in Orders(Added(withdeps, dependencies)) :
           /\ packName' = name
           /\ popLog' = Append(popLog, name)
           /\ package' = p
           /\ packageNames' = Front(packageNames) \o order
           /\ allPackageNames' =
                allPackageNames \cup Added(withdeps, dependencies)
           /\ log' = log (+) FindLog(name) (+) CheckLog(p, allPackageNames)
           /\ \/ /\ _packages[p].filename \in cache
                 /\ packageFilenames' = packageFilenames
                 /\ RefStep(name, p, dependencies, order, TRUE)
                 /\ UNCHANGED << cache, fetchLog, pc, exitCode >>
              \/ /\ _packages[p].filename \notin cache
                 /\ fetchLog' = Append(fetchLog, _packages[p].filename)
                 /\ cache' = cache \cup { _packages[p].filename }
                 /\ packageFilenames' =
                      Append(packageFilenames, _packages[p].filename)
                 /\ RefStep(name, p, dependencies, order, TRUE)
                 /\ UNCHANGED << pc, exitCode >>
              \/ /\ _packages[p].filename \notin cache
                 /\ fetchLog' = Append(fetchLog, _packages[p].filename)
                 /\ pc' = "exit"
                 /\ exitCode' = 1
                 /\ RefStep(name, p, dependencies, order, FALSE)
                 /\ UNCHANGED << cache, packageFilenames >>
  /\ UNCHANGED << inputVars, _packages, packages, call, firstResult,
                  extractVars >>

\* Lines 98-112: a name is popped, its package is found, its requirements
\* are checked and the package is downloaded unless the cache has it.  An
\* exception of urlretrieve is caught nowhere: the process ends with a
\* traceback and status 1.
Download ==
  /\ pc = "loop"
  /\ packageNames # <<>>
  /\ _findPackage(Last(packageNames)) # 0
  /\ LET name == Last(packageNames)
         p == _findPackage(name)
     IN  \E dependencies \in _checkPackageRequirements(p, allPackageNames) :
         \E order \in Orders(Added(withdeps, dependencies)) :
           /\ packName' = name
           /\ popLog' = Append(popLog, name)
           /\ package' = p
           /\ packageNames' = Front(packageNames) \o order
           /\ allPackageNames' =
                allPackageNames \cup Added(withdeps, dependencies)
           /\ log' = log (+) FindLog(name) (+) CheckLog(p, allPackageNames)
           /\ \/ /\ _packages[p].filename \in cache
                 /\ packageFilenames' =
                      Append(packageFilenames, _packages[p].filename)
                 /\ RefStep(name, p, dependencies, order, TRUE)
                 /\ UNCHANGED << cache, fetchLog, pc, exitCode >>
              \/ /\ _packages[p].filename \notin cache
                 /\ fetchLog' = Append(fetchLog, _packages[p].filename)
                 /\ cache' = cache \cup { _packages[p].filename }
                 /\ packageFilenames' =
                      Append(packageFilenames, _packages[p].filename)
                 /\ RefStep(name, p, dependencies, order, TRUE)
                 /\ UNCHANGED << pc, exitCode >>
              \/ /\ _packages[p].filename \notin cache
                 /\ fetchLog' = Append(fetchLog, _packages[p].filename)
                 /\ pc' = "exit"
                 /\ exitCode' = 1
                 /\ RefStep(name, p, dependencies, order, FALSE)
                 /\ UNCHANGED << cache, packageFilenames >>
  /\ UNCHANGED << inputVars, _packages, packages, call, firstResult,
                  extractVars >>

\* The return statement inside the loop body: the list is returned after
\* the first package.
ReturnInLoop ==
  /\ pc = "loop"
  /\ packageFilenames # <<>>
  /\ packages' = packageFilenames
  /\ pc' = "print"
  /\ UNCHANGED << inputVars, _packages, exitCode, cache, log, resolverVars,
                  refVars, extractVars >>

\* Lines 113 and 231: the work list is empty, the filenames are returned
\* to main.
Return ==
  /\ pc = "loop"
  /\ packageNames = <<>>
  /\ packages' = packageFilenames
  /\ pc' = "print"
  /\ UNCHANGED << inputVars, _packages, exitCode, cache, log, resolverVars,
                  refVars, extractVars >>

\* Lines 232-233: the filenames are written to standard output.
Output ==
  /\ pc = "print"
  /\ pc' = "packagesExtract"
  /\ UNCHANGED << inputVars, _packages, exitCode, cache, packages, log,
                  resolverVars, refVars, extractVars >>

----------------------------------------------------------------------------
(* packagesExtract and _extractFile *)

\* One call of _extractFile: the archive unpacked and whether 7z succeeded.
Extraction(file, stage, ok) == [file |-> file, stage |-> stage, ok |-> ok]

\* The failures of the first stage so far.
StageOneFailures ==
  Cardinality({ i \in 1..Len(extractLog) :
                  extractLog[i].stage = "rpm" /\ ~extractLog[i].ok })

\* Lines 127-135, one filename: the .rpm is unpacked to a .cpio unless the
\* .cpio is there, then the .cpio is unpacked, whatever became of the first
\* call: _extractFile catches every exception and only logs it.  7z fails
\* on a .cpio that does not exist.
Extract ==
  /\ pc = "packagesExtract"
  /\ extractPos < Len(packages)
  /\ LET file == packages[extractPos + 1]
         first == file \notin cpioCache
     IN  \E ok1 \in BOOLEAN :
           /\ first \/ ok1
           /\ (~ok1 => StageOneFailures < MaxExtractFailures)
           /\ cpioCache' = IF ok1 THEN cpioCache \cup { file } ELSE cpioCache
           /\ extractLog' =
                extractLog
                \o (IF first THEN << Extraction(file, "rpm", ok1) >>
                    ELSE <<>>)
                \o << Extraction(file, "cpio", ok1) >>
           /\ log' = log
                (+) (IF ~ok1
                     THEN SetToBag({ Message("extract", file, "rpm"),
                                     Message("extract", file, "cpio") })
                     ELSE EmptyBag)
  /\ extractPos' = extractPos + 1
  /\ UNCHANGED << inputVars, _packages, pc, exitCode, cache, packages,
                  resolverVars, refVars >>

\* Lines 236-254: the remaining steps of main write files only.
Finish ==
  /\ pc = "packagesExtract"
  /\ extractPos = Len(packages)
  /\ pc' = "exit"
  /\ exitCode' = 0
  /\ UNCHANGED << inputVars, _packages, cache, packages, log, resolverVars,
                  refVars, extractVars >>

\* main up to the return of packagesDownload (line 231).
NextResolve ==
  \/ GetOptions
  \/ OpenRepository
  \/ Basename
  \/ Expand
  \/ NotFound
  \/ Download
  \/ Return

\* The whole of main.
Next ==
  \/ NextResolve
  \/ Output
  \/ Extract
  \/ Finish

Spec == Init /\ [][Next]_vars

\* The program up to the moment packagesDownload has returned.
SpecResolve == Init /\ [][NextResolve]_vars

\* packagesDownload called again, with dependencies, on the filenames its
\* first call returned.
ResolveAgain ==
  /\ pc = "print"
  /\ call = 1
  /\ withdeps
  /\ call' = 2
  /\ firstResult' = SeqToSet(packages)
  /\ pc' = "packagesDownload"
  /\ UNCHANGED << inputVars, _packages, exitCode, cache, packages, log,
                  packageNames, allPackageNames, packageFilenames, packName,
                  popLog, package, fetchLog, refVars, extractVars >>

NextTwice == NextResolve \/ ResolveAgain

SpecTwice == Init /\ [][NextTwice]_vars

\* main up to the first test of the loop of packagesDownload, for the
\* package lists and the tokens that try the matching of names.
InitExpand ==
  /\ args \in NameRequests
  /\ withdeps \in BOOLEAN
  /\ repository \in NameRepositories
  /\ Started

NextExpand ==
  \/ GetOptions
  \/ OpenRepository
  \/ Basename
  \/ Expand

SpecExpand == InitExpand /\ [][NextExpand]_vars

\* The program run once more, with dependencies, on the same command line
\* and the same package list: a new process, which finds the package cache
\* the previous run has left.
RunAgain ==
  /\ pc = "print"
  /\ call = 1
  /\ withdeps
  /\ firstResult = {}
  /\ packages # <<>>
  /\ firstResult' = SeqToSet(packages)
  /\ pc' = "packagesDownload"
  /\ log' = EmptyBag
  /\ fetchLog' = <<>>
  /\ packages' = <<>>
  /\ UNCHANGED << inputVars, _packages, exitCode, cache, packageNames,
                  allPackageNames, packageFilenames, packName, popLog,
                  package, call, refVars, extractVars >>

NextRepeat == NextResolve \/ RunAgain

SpecRepeat == Init /\ [][NextRepeat]_vars

----------------------------------------------------------------------------
(* Properties. *)

\* The package of _packages that has the filename (filenames are unique).
PackageOf(filename) ==
  CHOOSE i \in 1..Len(_packages) : _packages[i].filename = filename

\* packagesDownload is in its loop or has just returned: none of its
\* variables changes afterwards.
Resolving == pc \in { "loop", "print" }

\* packagesDownload has just returned to main.
Returned == pc = "print"

\* C1: without dependencies, packagesDownload returns only filenames of
\* packages found for the expanded tokens: the work list and the set of
\* seen names never hold anything but the expanded tokens.  The
\* requirements nobody provides and those whose providers were not
\* requested are reported all the same.
C1_NoDependencyAdded ==
  (~withdeps /\ Resolving) =>
    /\ allPackageNames = packageNames_new(args)
    /\ SeqToSet(packageNames) \subseteq packageNames_new(args)
    /\ \A f \in SeqToSet(packageFilenames) :
         \E n \in packageNames_new(args) :
           /\ _findPackage(n) # 0
           /\ _packages[_findPackage(n)].filename = f
    /\ Returned =>
         \A f \in SeqToSet(packages) :
           /\ \A r \in Unprovided(PackageOf(f)) :
                CopiesIn(Message("unsatisfied", _packages[PackageOf(f)].name,
                                 r), log) >= 1
           /\ \A r \in Unmet(PackageOf(f), packageNames_new(args)) :
                CopiesIn(Message("ambiguous", _packages[PackageOf(f)].name,
                                 r), log) >= 1

\* A run without dependencies has returned a package one of whose
\* requirements has providers, none of them requested.
C1_Witness ==
  /\ ~withdeps
  /\ Returned
  /\ \E f \in SeqToSet(packages) : Unmet(PackageOf(f), allPackageNames) # {}

\* C2: with dependencies, the filenames returned are closed under
\* requirements: whatever a returned package requires and some package of
\* the list provides, is provided by a returned package.
C2_DependencyClosed ==
  (withdeps /\ Returned) =>
    \A f \in SeqToSet(packages) :
      \A r \in _packages[PackageOf(f)].requires :
        Providers(r) # {} =>
          \E g \in SeqToSet(packages) : r \in _packages[PackageOf(g)].provides

\* C3: with dependencies, resolving the returned filenames again returns
\* the same set of filenames.
C3_Idempotent ==
  (call = 2 /\ Returned) => SeqToSet(packages) = firstResult

\* C4: the package found for a popped name has the greatest build time
\* among the packages that have the name as their name or filename, it is
\* the first of these in the package list, and its filename is the one
\* collected.
C4_NewestFirstOfTies ==
  (pc = "loop" /\ package # 0) =>
    /\ packName \in { _packages[package].name, _packages[package].filename }
    /\ \A j \in 1..Len(_packages) :
         packName \in { _packages[j].name, _packages[j].filename } =>
           /\ _packages[j].buildtime <= _packages[package].buildtime
           /\ _packages[j].buildtime = _packages[package].buildtime =>
                package <= j
    /\ packageFilenames # <<>>
    /\ Last(packageFilenames) = _packages[package].filename

\* The name popped has an older package and two packages of the newest
\* build time.
C4_Witness ==
  /\ pc = "loop"
  /\ package # 0
  /\ \E j, k \in 1..Len(_packages) :
       /\ j # package
       /\ packName \in { _packages[j].name, _packages[j].filename }
       /\ _packages[j].buildtime = _packages[package].buildtime
       /\ packName \in { _packages[k].name, _packages[k].filename }
       /\ _packages[k].buildtime < _packages[package].buildtime

\* C5: no filename occurs twice in the list packagesDownload collects.
C5_Deduplicated ==
  \A i, j \in 1..Len(packageFilenames) :
    i # j => packageFilenames[i] # packageFilenames[j]

\* C6: looking up the filename of a package matches that package alone and
\* returns it.
C6_FilenameFindsItsPackage ==
  \A i \in 1..Len(_packages) :
    /\ Matching(_packages[i].filename) = << i >>
    /\ _findPackage(_packages[i].filename) = i

\* C7: a token that names nothing does not end the resolution; when
\* packagesDownload returns, one message says it was not found; and the
\* filenames collected are at every moment those of the run on the request
\* without such tokens.
C7_NamelessTokenIgnored ==
  /\ (package = 0 /\ packName # <<>>) => exitCode # 1
  /\ Resolving =>
    /\ refInStep
    /\ packageFilenames = refFilenames
    /\ Returned =>
         /\ packages = refFilenames
         /\ \A t \in Nameless(args) :
              CopiesIn(Message("not found", t, ""), log) = 1

\* packagesDownload has returned filenames for a request that had a token
\* naming nothing, and a dependency was added on the way.
C7_Witness ==
  /\ Returned
  /\ Nameless(args) # {}
  /\ Len(packages) >= 2
  /\ allPackageNames # packageNames_new(args)

\* C8: for every returned package and every requirement of it that nobody
\* provides, one message reports the pair.
C8_OneMessagePerPair ==
  Returned =>
    \A f \in SeqToSet(packages) :
      \A r \in Unprovided(PackageOf(f)) :
        CopiesIn(Message("unsatisfied", _packages[PackageOf(f)].name, r),
                 log) = 1

\* C9 as stated: no download and no extraction happens while names are
\* left in the work list.
C9_NoFetchBeforeQueueEmpty ==
  (fetchLog # <<>> \/ extractLog # <<>>) => packageNames = <<>>

\* C9: no extraction happens before the work list is empty and the
\* complete list of filenames has been returned.
C9_ExtractAfterResolution ==
  (extractPos > 0 \/ extractLog # <<>>) =>
    /\ packageNames = <<>>
    /\ pc \in { "packagesExtract", "exit" }
    /\ packages = packageFilenames

\* Extraction has begun for a list of several filenames, some of them
\* downloaded in this run.
C9_Witness ==
  /\ extractLog # <<>>
  /\ fetchLog # <<>>
  /\ Len(packages) >= 2

\* The download made last has failed: the file is not in the cache.
FetchFailed == fetchLog # <<>> /\ Last(fetchLog) \notin cache

\* C10: a failed download of one package does not end the run.
C10_FailedFetchSkipped ==
  FetchFailed => (pc # "exit" /\ exitCode # 1)

----------------------------------------------------------------------------
(* Extraction *)

\* The first call of _extractFile made for each filename of the plan.
FirstCalls ==
  SelectSeq([i \in 1..Len(extractLog) |-> i],
            LAMBDA i : \/ extractLog[i].stage = "rpm"
                       \/ i = 1
                       \/ extractLog[i - 1].stage = "cpio"
                       \/ extractLog[i - 1].file # extractLog[i].file)

\* C11: a failure of the first extraction stage of a package is not fatal,
\* the second stage of that package is not attempted, and every filename of
\* the plan is still taken up, in the order of the plan.
C11_FailedStageSkipsRest ==
  /\ StageOneFailures > 0 => exitCode # 1
  /\ \A i \in 1..Len(extractLog) :
       (extractLog[i].stage = "rpm" /\ ~extractLog[i].ok) =>
         ~(/\ i < Len(extractLog)
           /\ extractLog[i + 1].file = extractLog[i].file
           /\ extractLog[i + 1].stage = "cpio")
  /\ Len(FirstCalls) = extractPos
  /\ \A k \in 1..Len(FirstCalls) :
       extractLog[FirstCalls[k]].file = packages[k]

----------------------------------------------------------------------------
(* Exit status *)

\* The process has ended.
Exited == pc = "exit"

\* Opening the repository has failed (line 220).
OpenFailed ==
  CopiesIn(Message("Error opening repository", <<>>, ""), log) > 0

\* With --make-zip or --add-metadata, the first argument named no package
\* (line 228).
BasenameMissing ==
  \E first \in args : CopiesIn(Message("Package not found:", first, ""), log) > 0

----------------------------------------------------------------------------
(* Termination of the loop of packagesDownload *)

\* The runs followed to their end: those of a repository of at most
\* MaxLiveIndex packages and of at most MaxLiveRequest tokens.
InitLive ==
  /\ Init
  /\ Len(repository) <= MaxLiveIndex
  /\ Cardinality(args) <= MaxLiveRequest

\* main is one sequential process: as long as it has a next statement it
\* executes it.
SpecLive == InitLive /\ [][NextResolve]_vars /\ WF_vars(NextResolve)

\* No element stands twice in the sequence.
NoDuplicates(s) == \A i, j \in 1..Len(s) : s[i] = s[j] => i = j

\* packagesDownload has returned with an empty work list, or the process
\* has ended.
LoopLeft == (pc = "print" /\ packageNames = <<>>) \/ Exited

\* C13: the loop of packagesDownload ends, with or without dependencies and
\* also when the requirements of the packages form a cycle: the work list
\* gets empty and the filenames are returned, unless a download raises and
\* ends the process inside the loop; no name is popped twice in one call.
C13_LoopTerminates ==
  /\ [](Resolving => NoDuplicates(popLog))
  /\ []((Exited /\ popLog # <<>>) => FetchFailed)
  /\ <>LoopLeft

\* The call has returned after popping app and lib64, which require each
\* other, with dependencies followed.
C13_Witness ==
  /\ Returned
  /\ withdeps
  /\ packageNames = <<>>
  /\ { N_app, N_lib64 } \subseteq SeqToSet(popLog)
  /\ args = { << "app" >> }

----------------------------------------------------------------------------
(* Requirements of one package *)

\* The sets of providers that can be added when the requirements reqs are
\* taken one after the other, in any order, and each is tested against the
\* names seen together with the providers chosen before it.
RECURSIVE OneAfterTheOther(_, _, _)
OneAfterTheOther(reqs, names, chosen) ==
  IF reqs = {} THEN { chosen }
  ELSE UNION { IF Providers(r) = {}
                  \/ Providers(r) \cap (names \cup chosen) # {}
               THEN OneAfterTheOther(reqs \ { r }, names, chosen)
               ELSE UNION { OneAfterTheOther(reqs \ { r }, names,
                                             chosen \cup { x }) :
                            x \in Providers(r) } :
               r \in reqs }

\* C14: with dependencies followed, each requirement of the package found
\* is tested against the names seen so far, the providers chosen for the
\* earlier requirements of the same package included: a requirement with a
\* provider among them adds nothing, any other requirement that has
\* providers adds exactly one of them to the names seen and to the work
\* list; two requirements with the same providers add one provider.
C14_RequirementsSeeEarlierChoices ==
  [][ (pc = "loop" /\ withdeps /\ popLog' # popLog /\ package' # 0) =>
        /\ (allPackageNames' \ allPackageNames) \in
             OneAfterTheOther(_packages[package'].requires,
                              allPackageNames, {})
        /\ \A r1, r2 \in _packages[package'].requires :
             (r1 # r2 /\ Providers(r1) = Providers(r2)) =>
               Cardinality(Providers(r1) \cap
                           (allPackageNames' \ allPackageNames)) <= 1 ]_vars

----------------------------------------------------------------------------
(* Determinism *)

\* The second run has returned.
ReturnedAgain == Returned /\ call = 1 /\ firstResult # {}

\* C15: with dependencies, two runs on the same package list and the same
\* request return the same set of filenames, whatever the order in which
\* the names were popped and whichever providers were taken.
C15_SameResultEveryRun ==
  ReturnedAgain => SeqToSet(packages) = firstResult

----------------------------------------------------------------------------
(* The work list and the names seen *)

\* C16: in the loop of packagesDownload every name of the work list is
\* among the names seen and stands once in the work list; the names seen
\* only grow; what a step appends to the work list is what it adds to the
\* names seen.
C16_QueueWithinSeen ==
  /\ [](pc = "loop" => /\ SeqToSet(packageNames) \subseteq allPackageNames
                       /\ NoDuplicates(packageNames))
  /\ [][ /\ allPackageNames \subseteq allPackageNames'
         /\ (pc = "loop" /\ popLog' # popLog) =>
              LET rest == Len(packageNames) - 1
              IN  /\ Len(packageNames') >= rest
                  /\ SubSeq(packageNames', 1, rest) = Front(packageNames)
                  /\ { packageNames'[i] : i \in (rest + 1)..Len(packageNames') }
                       = allPackageNames' \ allPackageNames
                  /\ Len(packageNames') - rest
                       = Cardinality(allPackageNames' \ allPackageNames) ]_vars

\* Providers have been appended to the work list and are waiting there.
C16_Witness ==
  /\ pc = "loop"
  /\ withdeps
  /\ popLog # <<>>
  /\ packageNames # <<>>
  /\ Last(packageNames) \notin packageNames_new(args)

----------------------------------------------------------------------------
(* The package cache *)

\* The filenames of the packages found for the names popped, in the order
\* of the pops.
SelectedFilenames(pops) ==
  LET found == SelectSeq(pops, LAMBDA n : _findPackage(n) # 0)
  IN  [ i \in 1..Len(found) |-> _packages[_findPackage(found[i])].filename ]

\* C17: a package whose file is in the cache is not downloaded and its
\* filename is collected all the same; a download is made only for a file
\* the cache has not, and puts it there; so the filenames collected are
\* those of the packages found, whatever the cache held, all of them are in
\* the cache, and no file is downloaded twice in a run.
C17_CacheIdempotent ==
  /\ [](Resolving => /\ packageFilenames = SelectedFilenames(popLog)
                     /\ SeqToSet(packageFilenames) \subseteq cache
                     /\ NoDuplicates(fetchLog))
  /\ [][ (pc = "loop" /\ popLog' # popLog /\ package' # 0) =>
           LET filename == _packages[package'].filename
           IN  IF filename \in cache
               THEN /\ fetchLog' = fetchLog
                    /\ cache' = cache
                    /\ packageFilenames' = Append(packageFilenames, filename)
               ELSE /\ fetchLog' = Append(fetchLog, filename)
                    /\ pc' = "loop" =>
                         /\ cache' = cache \cup { filename }
                         /\ packageFilenames' =
                              Append(packageFilenames, filename) ]_vars

\* One file has been selected twice, by its name and by its filename: it
\* was downloaded the first time, found in the cache the second time, and
\* stands twice in the list returned.
C17_Witness ==
  /\ Returned
  /\ Len(packages) = 2
  /\ packages[1] = packages[2]
  /\ fetchLog = << packages[1] >>

----------------------------------------------------------------------------
(* Expansion of the tokens *)

\* A name without the mingw prefix it begins with, if it begins with one.
WithoutLeadingPrefix(name) ==
  IF name # <<>> /\ Head(name) \in { M32, M64 } THEN Tail(name) ELSE name

\* The names of the packages a token selects when only a leading prefix is
\* removed before the name is matched.
MatchedWithoutLeadingPrefix(token) ==
  { _packages[i].name : i \in { j \in 1..Len(_packages) :
        fnmatchcase(WithoutLeadingPrefix(_packages[j].name), token) } }

\* C18: the work list packagesDownload starts with holds every token that
\* ends in .rpm as it is; for every other token it holds the names of the
\* packages whose name, without a leading mingw32- or mingw64- and with a
\* prefix in its middle left in place, matches the token as a pattern, or
\* the token itself if there is no such package; it holds nothing else.
C18_TokensExpanded ==
  (pc = "loop" /\ popLog = <<>>) =>
    /\ SeqToSet(packageNames) = allPackageNames
    /\ allPackageNames =
         { t \in Requested : EndsWithRpm(t) }
         \cup UNION { IF MatchedWithoutLeadingPrefix(t) # {}
                      THEN MatchedWithoutLeadingPrefix(t)
                      ELSE { t } :
                      t \in { u \in Requested : ~EndsWithRpm(u) } }

====
